---------------------------- MODULE Spec2Model ----------------------------
(***************************************************************************)
(* A model of dropboxfs.py: the metadata cache (CacheItem, DropboxCache),  *)
(* the caching client (DropboxClient) that sits between the filesystem     *)
(* adapter (DropboxFS) and the remote store, and the remote store itself   *)
(* as the client sees it through the calls it makes.                       *)
(*                                                                         *)
(* Paths are sequences of names: <<>> is "/", <<"a","x">> is "/a/x".       *)
(* An optional value (Python None or a value) is a sequence of length 0    *)
(* or 1: None == <<>>, Some(v) == <<v>>.                                   *)
(***************************************************************************)
EXTENDS Integers, Sequences, FiniteSets, TLC

VARIABLES cache,       \* DropboxClient.cache: path -> CacheItem (a dict)
          now,         \* time.time()
          remote,      \* the remote store: path -> object
          version,     \* the last version tag the remote store handed out
          served,      \* requests the remote store has carried out so far
          lastCall,    \* the client call that has just returned or raised
          lastListing, \* the last listing fetched, until a local mutation
          running,     \* per thread: the adapter call it is in, and where
          lock,        \* DropboxFS._lock: the thread that holds it, or 0
          spool        \* the transfers open()ed, and the bodies of the remote files

vars == <<cache, now, remote, version, served, lastCall, lastListing, running, lock,
          spool>>

---------------------------------------------------------------------------
(* Bounds and program constants *)

CACHE_TTL == 300

\* The clock stops here.
MaxNow == 300

\* The remote store carries out this many requests (fetches and changes, of
\* this client and of other writers) and answers 503 to every later one.
MaxServed == 4

\* The same, when two threads use the instance.
MaxServedThreads == 3

\* max_buffer of the transfers: MAX_BUFFER, scaled down.
MaxBuffer == 3

\* A writer is given this many bytes at most, in writes of at most MaxChunk.
MaxBytes == 5

MaxChunk == 2

---------------------------------------------------------------------------
(* Optional values and dicts *)

None == <<>>

Some(v) == <<v>>

\* Python truthiness of an optional list: None and [] are both falsy.
Truthy(opt) == opt # None /\ opt[1] # <<>>

\* dict.get(key, default)
Get(d, key, default) == IF key \in DOMAIN d THEN d[key] ELSE default

\* dict.pop(key, default) seen as the dict that is left
Pop(d, key) == [k \in DOMAIN d \ {key} |-> d[k]]

\* d[key] = value
Put(d, key, value) == [k \in DOMAIN d \cup {key} |-> IF k = key THEN value ELSE d[k]]

---------------------------------------------------------------------------
(* Paths *)

Root == <<>>

Paths == {<<>>, <<"a">>, <<"b">>, <<"a", "x">>}

\* The order in which the remote store lists paths.
PathSeq == << <<"a">>, <<"b">>, <<"a", "x">> >>

\* fs.path.pathsplit: pathsplit("/") is ("/", "").
pathsplit(path) ==
    IF path = <<>> THEN << <<>>, "" >>
    ELSE << SubSeq(path, 1, Len(path) - 1), path[Len(path)] >>

dirname(path) == pathsplit(path)[1]

basename(path) == pathsplit(path)[2]

\* q is path or lies below it
IsUnder(q, path) == Len(q) >= Len(path) /\ SubSeq(q, 1, Len(path)) = path

\* q, a path under src, as it is named once src has become dst
Rebase(q, src, dst) == dst \o SubSeq(q, Len(src) + 1, Len(q))

---------------------------------------------------------------------------
(* CacheItem *)

CacheItem(metadata, children, timestamp) ==
    [metadata |-> metadata, children |-> children, timestamp |-> timestamp]

add_child(item, name) ==
    IF item.children = None
    THEN [item EXCEPT !.children = Some(<<name>>)]
    ELSE [item EXCEPT !.children = Some(Append(item.children[1], name))]

\* list.index(name): the first position of name, 0 for ValueError
index(list, name) ==
    IF \E i \in 1..Len(list) : list[i] = name
    THEN CHOOSE i \in 1..Len(list) :
            list[i] = name /\ \A j \in 1..(i - 1) : list[j] # name
    ELSE 0

\* list.pop(i)
RemoveAt(list, i) == SubSeq(list, 1, i - 1) \o SubSeq(list, i + 1, Len(list))

del_child(item, name) ==
    IF item.children = None THEN item
    ELSE IF index(item.children[1], name) = 0 THEN item
    ELSE [item EXCEPT !.children =
            Some(RemoveAt(item.children[1], index(item.children[1], name)))]

_get_expired(item, t) == item.timestamp <= t - CACHE_TTL

renew(item, t) == [item EXCEPT !.timestamp = t]

---------------------------------------------------------------------------
(* DropboxCache *)

set(c, path, metadata, t) ==
    LET c1 == Put(c, path, CacheItem(Some(metadata), None, t))
        dname == pathsplit(path)[1]
        bname == pathsplit(path)[2]
    IN  IF dname \in DOMAIN c1
        THEN [c1 EXCEPT ![dname] = add_child(c1[dname], bname)]
        ELSE c1

pop(c, path) ==
    LET c1 == Pop(c, path)
        dname == pathsplit(path)[1]
        bname == pathsplit(path)[2]
    IN  IF dname \in DOMAIN c1
        THEN [c1 EXCEPT ![dname] = del_child(c1[dname], bname)]
        ELSE c1

---------------------------------------------------------------------------
(* The remote store, as the calls of client.DropboxClient answer from it.  *)
(* An object is absent (never there), live, or deleted (a tombstone that   *)
(* the store still reports, with its deleted flag set).  Every change      *)
(* hands out a new version tag to the changed object and to the directory  *)
(* that lists it, so a directory's hash changes exactly when its listing   *)
(* does.                                                                   *)

Absent == [state |-> "absent", is_dir |-> FALSE, hash |-> 0]

LiveObj(is_dir, v) == [state |-> "live", is_dir |-> is_dir, hash |-> v]

Live(r, path) == r[path].state = "live"

IsDir(r, path) == Live(r, path) /\ r[path].is_dir

\* The metadata record the store returns for a path.
Record(r, path) ==
    [path |-> path, is_dir |-> r[path].is_dir, hash |-> r[path].hash,
     is_deleted |-> (r[path].state = "deleted")]

\* The live members of a directory, in listing order (include_deleted=False).
Contents(r, path) ==
    LET members == SelectSeq(PathSeq, LAMBDA q : dirname(q) = path /\ Live(r, q))
    IN  [i \in 1..Len(members) |-> Record(r, members[i])]

HasMembers(r, path) == \E q \in Paths \ {Root} : dirname(q) = path /\ Live(r, q)

\* The store with obj written at path: the parent's listing changed too.
Stamp(r, path, obj, v) ==
    [q \in Paths |->
        IF q = path THEN obj
        ELSE IF path # Root /\ q = dirname(path) THEN [r[q] EXCEPT !.hash = v]
        ELSE r[q]]

\* The store `base` with the tree that is live below src in r written below dst.
Copied(r, base, src, dst, v) ==
    [q \in Paths |->
        IF \E s \in Paths : IsUnder(s, src) /\ Live(r, s) /\ Rebase(s, src, dst) = q
        THEN LET s == CHOOSE s \in Paths :
                        IsUnder(s, src) /\ Live(r, s) /\ Rebase(s, src, dst) = q
             IN  LiveObj(r[s].is_dir, v)
        ELSE IF q = dirname(dst) THEN [base[q] EXCEPT !.hash = v]
        ELSE base[q]]

\* The tree below src turned into tombstones (after a move).
Removed(r, src, v) ==
    [q \in Paths |->
        IF IsUnder(q, src) /\ Live(r, q) THEN [r[q] EXCEPT !.state = "deleted", !.hash = v]
        ELSE IF q = dirname(src) THEN [r[q] EXCEPT !.hash = v]
        ELSE r[q]]

\* Everything live below src has a name below dst among the modelled paths.
Fits(r, src, dst) ==
    \A s \in Paths : (IsUnder(s, src) /\ Live(r, s)) => Rebase(s, src, dst) \in Paths

Response(status, msg, metadata, contents, store) ==
    [status |-> status, msg |-> msg, metadata |-> metadata,
     contents |-> contents, store |-> store]

\* rest.ErrorResponse with this status
ErrorResponse(r, status, msg) == Response(status, msg, Record(r, Root), <<>>, r)

\* client.DropboxClient.metadata(path, hash=hash, list=list, include_deleted=False)
super_metadata(r, path, list, hash, limited) ==
    IF limited THEN ErrorResponse(r, 503, "")
    ELSE IF r[path].state = "absent" THEN ErrorResponse(r, 404, "")
    ELSE IF list /\ hash # None /\ IsDir(r, path) /\ hash[1] = r[path].hash
         THEN ErrorResponse(r, 304, "")
    ELSE Response(200, "", Record(r, path),
                  IF list /\ IsDir(r, path) THEN Contents(r, path) ELSE <<>>, r)

\* client.DropboxClient.file_create_folder(path)
super_file_create_folder(r, v, path, limited) ==
    IF limited THEN ErrorResponse(r, 503, "")
    ELSE IF path = Root \/ Live(r, path) THEN ErrorResponse(r, 403, "")
    ELSE IF ~IsDir(r, dirname(path)) THEN ErrorResponse(r, 404, "")
    ELSE LET store == Stamp(r, path, LiveObj(TRUE, v + 1), v + 1)
         IN  Response(200, "", Record(store, path), <<>>, store)

\* client.DropboxClient.file_copy(src, dst)
super_file_copy(r, v, src, dst, limited) ==
    IF limited THEN ErrorResponse(r, 503, "")
    ELSE IF src = Root \/ ~Live(r, src) THEN ErrorResponse(r, 404, "")
    ELSE IF dst = Root \/ Live(r, dst) \/ IsUnder(dst, src) \/ ~IsDir(r, dirname(dst))
         THEN ErrorResponse(r, 403, "")
    ELSE LET store == Copied(r, r, src, dst, v + 1)
         IN  Response(200, "", Record(store, dst), <<>>, store)

\* client.DropboxClient.file_move(src, dst)
super_file_move(r, v, src, dst, limited) ==
    IF limited THEN ErrorResponse(r, 503, "")
    ELSE IF src = Root \/ ~Live(r, src) THEN ErrorResponse(r, 404, "")
    ELSE IF dst = Root \/ Live(r, dst) \/ IsUnder(dst, src) \/ ~IsDir(r, dirname(dst))
         THEN ErrorResponse(r, 403, "")
    ELSE LET store == Copied(r, Removed(r, src, v + 1), src, dst, v + 1)
         IN  Response(200, "", Record(store, dst), <<>>, store)

\* client.DropboxClient.file_delete(path)
super_file_delete(r, v, path, limited) ==
    IF limited THEN ErrorResponse(r, 503, "")
    ELSE IF path = Root \/ ~Live(r, path) THEN ErrorResponse(r, 404, "")
    ELSE IF HasMembers(r, path) THEN ErrorResponse(r, 400, "must not be empty")
    ELSE LET store == Stamp(r, path, [r[path] EXCEPT !.state = "deleted", !.hash = v + 1], v + 1)
         IN  Response(200, "", Record(store, path), <<>>, store)

\* client.DropboxClient.put_file(path, f, overwrite=True)
super_put_file(r, v, path, limited) ==
    IF limited THEN ErrorResponse(r, 503, "")
    ELSE IF path = Root \/ IsDir(r, path) THEN ErrorResponse(r, 400, "")
    ELSE IF ~IsDir(r, dirname(path)) THEN ErrorResponse(r, 404, "")
    ELSE LET store == Stamp(r, path, LiveObj(FALSE, v + 1), v + 1)
         IN  Response(200, "", Record(store, path), <<>>, store)

---------------------------------------------------------------------------
(* DropboxClient.  Each method is an operator from the cache c, the remote *)
(* store r (with its last version tag v), the arguments and the time t to  *)
(* the outcome of the call: the cache and the store it leaves, the         *)
(* exception it raises ("none" when it returns), how many remote calls it  *)
(* made, the status of the remote answer, the hash it sent, and what it    *)
(* returned.                                                               *)

Outcome(c, r, v, err, nremote, status, hash, ret, names) ==
    [cache |-> c, store |-> r, version |-> v, err |-> err, remote |-> nremote,
     status |-> status, hash |-> hash, ret |-> ret, names |-> names]

\* The call raised err after the remote answer resp: nothing was written.
Raise(c, r, v, err, resp) == Outcome(c, r, v, err, 1, resp.status, None, None, None)

\* CopyOf as it would be if metadata() returned item.metadata itself.
SameDict(d) == [shared |-> TRUE, val |-> d]

\* dict(item.metadata.items()): a new dict, which the cache does not share
CopyOf(d) == [shared |-> FALSE, val |-> d]

\* metadata() up to the remote call: whether the record is to be fetched.
metadata_check(c, path, t) ==
    path \notin DOMAIN c \/ c[path].metadata = None \/ _get_expired(c[path], t)

\* metadata as it would be with the item stored ahead of the is_deleted test.
metadata_stores_deleted(c, r, v, path, limited, t) ==
    IF metadata_check(c, path, t)
    THEN LET resp == super_metadata(r, path, FALSE, None, limited)
             stored == Put(c, path, CacheItem(Some(resp.metadata), None, t))
         IN  IF resp.status = 404 THEN Raise(c, r, v, "ResourceNotFoundError", resp)
             ELSE IF resp.status # 200 THEN Raise(c, r, v, "RemoteConnectionError", resp)
             ELSE IF Get(resp.metadata, "is_deleted", FALSE)
                  THEN Raise(stored, r, v, "ResourceNotFoundError", resp)
             ELSE Outcome(stored, r, v,
                          "none", 1, 200, None, Some(CopyOf(resp.metadata)), None)
    ELSE Outcome(c, r, v, "none", 0, 0, None, Some(CopyOf(c[path].metadata[1])), None)

metadata(c, r, v, path, limited, t) ==
    IF metadata_check(c, path, t)
    THEN LET resp == super_metadata(r, path, FALSE, None, limited)
         IN  IF resp.status = 404 THEN Raise(c, r, v, "ResourceNotFoundError", resp)
             ELSE IF resp.status # 200 THEN Raise(c, r, v, "RemoteConnectionError", resp)
             ELSE IF Get(resp.metadata, "is_deleted", FALSE)
                  THEN Raise(c, r, v, "ResourceNotFoundError", resp)
             ELSE Outcome(Put(c, path, CacheItem(Some(resp.metadata), None, t)), r, v,
                          "none", 1, 200, None, Some(CopyOf(resp.metadata)), None)
    ELSE Outcome(c, r, v, "none", 0, 0, None, Some(CopyOf(c[path].metadata[1])), None)

\* The loop of children() over the listing: the names kept, in order.
ListedNames(contents) ==
    LET kept == SelectSeq(contents, LAMBDA child : ~Get(child, "is_deleted", FALSE))
    IN  [i \in 1..Len(kept) |-> basename(kept[i].path)]

\* The loop of children() over the listing: one CacheItem per member kept.
Seeded(c, contents, t) ==
    [q \in DOMAIN c \cup
           {contents[i].path : i \in {j \in 1..Len(contents) :
                                        ~Get(contents[j], "is_deleted", FALSE)}} |->
        IF \E i \in 1..Len(contents) :
              contents[i].path = q /\ ~Get(contents[i], "is_deleted", FALSE)
        THEN CacheItem(Some(CHOOSE child \in {contents[i] : i \in 1..Len(contents)} :
                                child.path = q), None, t)
        ELSE c[q]]

\* children() up to the remote call: the exception the look at the cached
\* item raises, whether the listing is to be fetched, and the hash to send.
children_check(c, path, t) ==
    LET item == path \in DOMAIN c
    IN  [err |-> IF item /\ ~_get_expired(c[path], t) /\ c[path].metadata = None
                 THEN "AttributeError"
                 ELSE IF item /\ ~_get_expired(c[path], t)
                              /\ ~Get(c[path].metadata[1], "is_dir", FALSE)
                 THEN "ResourceInvalidError"
                 ELSE "none",
         update |-> IF item
                    THEN _get_expired(c[path], t) \/ ~Truthy(c[path].children)
                    ELSE TRUE,
         hash |-> IF item /\ _get_expired(c[path], t)
                          /\ c[path].metadata # None /\ Truthy(c[path].children)
                  THEN Some(c[path].metadata[1].hash) ELSE None]

\* children() after a 200: the members' items, then the item of path.
children_store(c, path, md, contents, t) ==
    Put(Seeded(c, contents, t), path,
        CacheItem(Some(md), Some(ListedNames(contents)), t))

children(c, r, v, path, limited, t) ==
    LET chk == children_check(c, path, t)
        resp == super_metadata(r, path, TRUE, chk.hash, limited)
    IN  IF chk.err # "none"
        THEN Outcome(c, r, v, chk.err, 0, 0, None, None, None)
        ELSE IF ~chk.update
        THEN Outcome(c, r, v, "none", 0, 0, None, None, c[path].children)
        ELSE IF resp.status = 200
        THEN Outcome(children_store(c, path, resp.metadata, resp.contents, t), r, v,
                     "none", 1, 200, chk.hash, None, Some(ListedNames(resp.contents)))
        ELSE IF path \notin DOMAIN c \/ resp.status # 304
        THEN [Raise(c, r, v, "RemoteConnectionError", resp) EXCEPT !.hash = chk.hash]
        ELSE Outcome([c EXCEPT ![path] = renew(c[path], t)], r, v, "none", 1, 304,
                     chk.hash, None, c[path].children)

file_create_folder(c, r, v, path, limited, t) ==
    LET resp == super_file_create_folder(r, v, path, limited)
    IN  IF resp.status = 404 THEN Raise(c, r, v, "ParentDirectoryMissingError", resp)
        ELSE IF resp.status = 403 THEN Raise(c, r, v, "DestinationExistsError", resp)
        ELSE IF resp.status # 200 THEN Raise(c, r, v, "RemoteConnectionError", resp)
        ELSE Outcome(set(c, path, resp.metadata, t), resp.store, v + 1,
                     "none", 1, 200, None, None, None)

\* The except clause of file_copy and file_move names `path`, which neither
\* method defines: building the RemoteConnectionError raises NameError.
file_copy(c, r, v, src, dst, limited, t) ==
    LET resp == super_file_copy(r, v, src, dst, limited)
    IN  IF resp.status = 404 THEN Raise(c, r, v, "ResourceNotFoundError", resp)
        ELSE IF resp.status = 403 THEN Raise(c, r, v, "DestinationExistsError", resp)
        ELSE IF resp.status # 200 THEN Raise(c, r, v, "NameError", resp)
        ELSE Outcome(set(c, dst, resp.metadata, t), resp.store, v + 1,
                     "none", 1, 200, None, None, None)

\* file_move as it would be without self.cache.pop(src).
file_move_keeps_src(c, r, v, src, dst, limited, t) ==
    LET resp == super_file_move(r, v, src, dst, limited)
    IN  IF resp.status = 404 THEN Raise(c, r, v, "ResourceNotFoundError", resp)
        ELSE IF resp.status = 403 THEN Raise(c, r, v, "DestinationExistsError", resp)
        ELSE IF resp.status # 200 THEN Raise(c, r, v, "NameError", resp)
        ELSE Outcome(set(c, dst, resp.metadata, t), resp.store, v + 1,
                     "none", 1, 200, None, None, None)

file_move(c, r, v, src, dst, limited, t) ==
    LET resp == super_file_move(r, v, src, dst, limited)
    IN  IF resp.status = 404 THEN Raise(c, r, v, "ResourceNotFoundError", resp)
        ELSE IF resp.status = 403 THEN Raise(c, r, v, "DestinationExistsError", resp)
        ELSE IF resp.status # 200 THEN Raise(c, r, v, "NameError", resp)
        ELSE Outcome(set(pop(c, src), dst, resp.metadata, t), resp.store, v + 1,
                     "none", 1, 200, None, None, None)

\* file_delete as it would be with self.cache.pop(path) ahead of the try.
file_delete_pops_first(c, r, v, path, limited, t) ==
    LET resp == super_file_delete(r, v, path, limited)
        popped == pop(c, path)
    IN  IF resp.status = 404 THEN Raise(popped, r, v, "ResourceNotFoundError", resp)
        ELSE IF resp.status = 400 /\ resp.msg = "must not be empty"
             THEN Raise(popped, r, v, "DirectoryNotEmptyError", resp)
        ELSE IF resp.status # 200 THEN Raise(popped, r, v, "ErrorResponse", resp)
        ELSE Outcome(popped, resp.store, v + 1, "none", 1, 200, None, None, None)

\* Any status but 404 and the "must not be empty" 400 is re-raised as it came.
file_delete(c, r, v, path, limited, t) ==
    LET resp == super_file_delete(r, v, path, limited)
    IN  IF resp.status = 404 THEN Raise(c, r, v, "ResourceNotFoundError", resp)
        ELSE IF resp.status = 400 /\ resp.msg = "must not be empty"
             THEN Raise(c, r, v, "DirectoryNotEmptyError", resp)
        ELSE IF resp.status # 200 THEN Raise(c, r, v, "ErrorResponse", resp)
        ELSE Outcome(pop(c, path), resp.store, v + 1, "none", 1, 200, None, None, None)

put_file(c, r, v, path, limited, t) ==
    LET resp == super_put_file(r, v, path, limited)
    IN  IF resp.status # 200 THEN Raise(c, r, v, "RemoteConnectionError", resp)
        ELSE Outcome(pop(c, dirname(path)), resp.store, v + 1,
                     "none", 1, 200, None, None, None)

---------------------------------------------------------------------------
(* DropboxFS: the adapter's handlers, one action each.  A handler calls    *)
(* the client method; the outcome of the call is the next state, and       *)
(* lastCall holds what the caller got until the caller has taken it.       *)

\* What metadata_to_info does to the cache: it pops 'is_dir' (and 'bytes',
\* 'modified') from the dict metadata() returned, which changes the cached
\* dict exactly when the two are the same object.
metadata_to_info(c, path, ret) ==
    IF ret # None /\ ret[1].shared
    THEN [c EXCEPT ![path].metadata = Some(Pop(ret[1].val, "is_dir"))]
    ELSE c

\* The threads that use the one DropboxFS instance.
Threads == {1, 2}

\* A thread that is in no adapter call.
NoRun ==
    [op |-> "none", path |-> Root, dst |-> Root, at |-> "idle", hash |-> None,
     resp |-> None]

\* No transfer is open, and the remote files are empty.  A remote file is
\* its body, and what the writer that uploaded it was given.
NoSpool ==
    [writer |-> None, reader |-> None,
     content |-> [path \in Paths |-> [body |-> <<>>, original |-> <<>>]]]

NoCall ==
    [op |-> "none", path |-> Root, dst |-> Root, err |-> "none", remote |-> 0,
     status |-> 0, hash |-> None, ret |-> None, names |-> None]

Idle == lastCall = NoCall

\* The remote store refuses what it is asked once it has carried out
\* MaxServed requests: it answers 503 until the end.
Limited == served >= MaxServed

\* The remote store carried out a request of this call.
Served(o) == o.remote = 1 /\ o.status \in {200, 304}

\* The state after a client call with outcome o.
Finish(op, path, dst, o) ==
    /\ cache' = o.cache
    /\ remote' = o.store
    /\ version' = o.version
    /\ served' = IF Served(o) THEN served + 1 ELSE served
    /\ lastCall' = [op |-> op, path |-> path, dst |-> dst, err |-> o.err,
                    remote |-> o.remote, status |-> o.status, hash |-> o.hash,
                    ret |-> o.ret, names |-> o.names]
    /\ UNCHANGED <<now, running, lock, spool>>

\* A mutating call that went through ends the run of calls a listing
\* stays valid for.
FinishMutation(op, path, dst, o) ==
    /\ Finish(op, path, dst, o)
    /\ lastListing' = IF o.err = "none" THEN None ELSE lastListing

getinfo(path) ==
    /\ Idle
    /\ \E o \in {metadata(cache, remote, version, path, Limited, now)} :
          Finish("metadata", path, path,
                 [o EXCEPT !.cache = metadata_to_info(o.cache, path, o.ret)])
    /\ UNCHANGED lastListing

listdir(path) ==
    /\ Idle
    /\ \E o \in {children(cache, remote, version, path, Limited, now)} :
          /\ Finish("children", path, path, o)
          /\ lastListing' =
                IF o.status = 200
                THEN Some([path |-> path, names |-> o.names[1], at |-> now])
                ELSE lastListing

makedir(path) ==
    /\ Idle
    /\ \E o \in {file_create_folder(cache, remote, version, path, Limited, now)} :
          FinishMutation("file_create_folder", path, path, o)

copy(src, dst) ==
    /\ Idle
    /\ \E o \in {file_copy(cache, remote, version, src, dst, Limited, now)} :
          /\ o.err = "none" => Fits(remote, src, dst)
          /\ FinishMutation("file_copy", src, dst, o)

move(src, dst) ==
    /\ Idle
    /\ \E o \in {file_move(cache, remote, version, src, dst, Limited, now)} :
          /\ o.err = "none" => Fits(remote, src, dst)
          /\ FinishMutation("file_move", src, dst, o)

remove(path) ==
    /\ Idle
    /\ \E o \in {file_delete(cache, remote, version, path, Limited, now)} :
          FinishMutation("file_delete", path, path, o)

setcontents(path) ==
    /\ Idle
    /\ \E o \in {put_file(cache, remote, version, path, Limited, now)} :
          FinishMutation("put_file", path, path, o)

\* The caller has taken the result (or the exception) of the call.
Return ==
    /\ ~Idle
    /\ lastCall' = NoCall
    /\ UNCHANGED <<cache, now, remote, version, served, lastListing, running, lock, spool>>

---------------------------------------------------------------------------
(* The environment: the clock, and the other writers of the remote store.  *)

\* time.time() advances: to one second short of CACHE_TTL, or by all of it.
Tick ==
    /\ Idle
    /\ \E delta \in {CACHE_TTL - 1, CACHE_TTL} :
          /\ now + delta <= MaxNow
          /\ now' = now + delta
    /\ UNCHANGED <<cache, remote, version, served, lastCall, lastListing, running, lock, spool>>

\* Another client of the same account deletes something.
OtherWriter ==
    /\ Idle
    /\ served < MaxServed
    /\ \E path \in Paths \ {Root} :
          \E resp \in {super_file_delete(remote, version, path, FALSE)} :
          /\ resp.status = 200
          /\ remote' = resp.store
    /\ version' = version + 1
    /\ served' = served + 1
    /\ UNCHANGED <<cache, now, lastCall, lastListing, running, lock, spool>>

---------------------------------------------------------------------------
(* The specification *)

\* The store a new client finds: the directory /a with the file /a/x in it.
InitStore ==
    [p \in Paths |->
        IF p \in {Root, <<"a">>} THEN LiveObj(TRUE, 0)
        ELSE IF p = <<"a", "x">> THEN LiveObj(FALSE, 0)
        ELSE Absent]

\* DropboxClient.__init__: an empty cache.
Init ==
    /\ cache = << >>
    /\ now = 0
    /\ remote = InitStore
    /\ version = 0
    /\ served = 0
    /\ lastCall = NoCall
    /\ lastListing = None
    /\ running = [t \in Threads |-> NoRun]
    /\ lock = 0
    /\ spool = NoSpool

\* The destinations tried for a source: neither above nor below it.
Apart(src) == {dst \in Paths \ {Root} : ~IsUnder(dst, src) /\ ~IsUnder(src, dst)}

Next ==
    \/ \E path \in Paths : getinfo(path)
    \/ \E path \in Paths : listdir(path)
    \/ \E path \in Paths \ {Root} : makedir(path)
    \/ \E src \in Paths \ {Root} : \E dst \in Apart(src) : copy(src, dst)
    \/ \E src \in Paths \ {Root} : \E dst \in Apart(src) : move(src, dst)
    \/ \E path \in Paths \ {Root} : remove(path)
    \/ \E path \in Paths \ {Root} : setcontents(path)
    \/ Return
    \/ Tick
    \/ OtherWriter

Spec == Init /\ [][Next]_vars

---------------------------------------------------------------------------
(* Two threads on the one DropboxFS instance.  A call is a sequence of     *)
(* steps: the look at the cache, the remote request, the write to the      *)
(* cache; the steps of the two threads interleave.  A method under         *)
(* @synchronize takes the lock before its first step and gives it back     *)
(* when it is over; the other methods never look at the lock.              *)

\* The remote store refuses what the threads ask once it has carried out
\* MaxServedThreads requests.
LimitedThreads == served >= MaxServedThreads

Enters(t, op, path, dst, at, hash, resp) ==
    running' = [running EXCEPT ![t] = [op |-> op, path |-> path, dst |-> dst,
                                       at |-> at, hash |-> hash, resp |-> resp]]

\* DropboxFS.listdir, not under @synchronize: children() looks at the
\* cached item, and returns or raises at once unless it is to fetch.
t_listdir(t, path) ==
    /\ running[t].at = "idle"
    /\ LET chk == children_check(cache, path, now)
       IN  Enters(t, "children", path, path,
                  IF chk.err = "none" /\ chk.update THEN "fetch" ELSE "return",
                  chk.hash, None)
    /\ UNCHANGED <<cache, now, remote, version, served, lastCall, lastListing, lock, spool>>

\* DropboxFS.getinfo, under @synchronize: metadata() looks at the cached
\* item, and returns its copy at once unless it is to fetch.
t_getinfo(t, path) ==
    /\ running[t].at = "idle"
    /\ lock = 0
    /\ lock' = t
    /\ Enters(t, "metadata", path, path,
              IF metadata_check(cache, path, now) THEN "fetch" ELSE "return",
              None, None)
    /\ UNCHANGED <<cache, now, remote, version, served, lastCall, lastListing, spool>>

\* The remote request of children() or metadata().  The call is over when
\* it raises; 304 answers a hash, which only a cached item provides.
t_fetch(t) ==
    /\ running[t].at = "fetch"
    /\ LET call == running[t]
           resp == super_metadata(remote, call.path, call.op = "children",
                                  call.hash, LimitedThreads)
           kept == IF call.op = "children"
                   THEN resp.status \in {200, 304}
                   ELSE resp.status = 200 /\ ~Get(resp.metadata, "is_deleted", FALSE)
       IN  /\ running' =
                 [running EXCEPT ![t] =
                     IF kept
                     THEN [call EXCEPT !.at = "populate",
                                       !.resp = Some([status |-> resp.status,
                                                      metadata |-> resp.metadata,
                                                      contents |-> resp.contents])]
                     ELSE NoRun]
           /\ lock' = IF ~kept /\ lock = t THEN 0 ELSE lock
           /\ served' = IF resp.status \in {200, 304} THEN served + 1 ELSE served
    /\ UNCHANGED <<cache, now, remote, version, lastCall, lastListing, spool>>

\* The remote request of a mutating client call, whose outcome is o: the
\* call is over when it raises, and has the cache to update when not.
t_call(t, op, path, dst, o) ==
    /\ running[t].at = "idle"
    /\ remote' = o.store
    /\ version' = o.version
    /\ served' = IF Served(o) THEN served + 1 ELSE served
    /\ IF o.err = "none"
       THEN Enters(t, op, path, dst, "populate", None,
                   Some([status |-> o.status, metadata |-> Record(o.store, dst),
                         contents |-> <<>>]))
       ELSE UNCHANGED running
    /\ UNCHANGED <<cache, now, lastCall, lastListing, lock, spool>>

\* DropboxFS.makedir, copy, move, remove and setcontents: none of them is
\* under @synchronize.
t_makedir(t, path) ==
    \E o \in {file_create_folder(cache, remote, version, path, LimitedThreads, now)} :
        t_call(t, "file_create_folder", path, path, o)

t_copy(t, src, dst) ==
    \E o \in {file_copy(cache, remote, version, src, dst, LimitedThreads, now)} :
        /\ o.err = "none" => Fits(remote, src, dst)
        /\ t_call(t, "file_copy", src, dst, o)

t_move(t, src, dst) ==
    \E o \in {file_move(cache, remote, version, src, dst, LimitedThreads, now)} :
        /\ o.err = "none" => Fits(remote, src, dst)
        /\ t_call(t, "file_move", src, dst, o)

t_remove(t, path) ==
    \E o \in {file_delete(cache, remote, version, path, LimitedThreads, now)} :
        t_call(t, "file_delete", path, path, o)

t_setcontents(t, path) ==
    \E o \in {put_file(cache, remote, version, path, LimitedThreads, now)} :
        t_call(t, "put_file", path, path, o)

\* What a client call writes to the cache once the remote store has
\* answered.  renew() acts on the item the look at the cache found.
CacheUpdate(op, c, path, dst, resp, t) ==
    CASE op = "children" ->
            IF resp.status = 200
            THEN children_store(c, path, resp.metadata, resp.contents, t)
            ELSE IF path \in DOMAIN c THEN [c EXCEPT ![path] = renew(c[path], t)]
            ELSE c
      [] op = "metadata" -> Put(c, path, CacheItem(Some(resp.metadata), None, t))
      [] op = "file_create_folder" -> set(c, path, resp.metadata, t)
      [] op = "file_copy" -> set(c, dst, resp.metadata, t)
      [] op = "file_move" -> set(pop(c, path), dst, resp.metadata, t)
      [] op = "file_delete" -> pop(c, path)
      [] op = "put_file" -> pop(c, dirname(path))

\* The write to the cache, which ends the call.
t_populate(t) ==
    /\ running[t].at = "populate"
    /\ cache' = CacheUpdate(running[t].op, cache, running[t].path, running[t].dst,
                            running[t].resp[1], now)
    /\ running' = [running EXCEPT ![t] = NoRun]
    /\ lock' = IF lock = t THEN 0 ELSE lock
    /\ UNCHANGED <<now, remote, version, served, lastCall, lastListing, spool>>

\* The end of a call that the cache answered.
t_return(t) ==
    /\ running[t].at = "return"
    /\ running' = [running EXCEPT ![t] = NoRun]
    /\ lock' = IF lock = t THEN 0 ELSE lock
    /\ UNCHANGED <<cache, now, remote, version, served, lastCall, lastListing, spool>>

NextThreads ==
    \E t \in Threads :
        \/ \E path \in Paths : t_listdir(t, path)
        \/ \E path \in Paths : t_getinfo(t, path)
        \/ \E path \in Paths \ {Root} : t_makedir(t, path)
        \/ \E src \in Paths \ {Root} : \E dst \in Apart(src) : t_copy(t, src, dst)
        \/ \E src \in Paths \ {Root} : \E dst \in Apart(src) : t_move(t, src, dst)
        \/ \E path \in Paths \ {Root} : t_remove(t, path)
        \/ \E path \in Paths \ {Root} : t_setcontents(t, path)
        \/ t_fetch(t)
        \/ t_populate(t)
        \/ t_return(t)

SpecThreads == Init /\ [][NextThreads]_vars

---------------------------------------------------------------------------
(* The transfers: SpooledWriter and SpooledReader, and the file objects    *)
(* they keep in self.temp.  A file object is its data, the position of     *)
(* the next read or write, and whether it lives in memory (StringIO) or    *)
(* on disk (tempfile.TemporaryFile).  The bytes a writer is given are      *)
(* numbered 1, 2, 3, ... in the order of the write calls.                  *)

StringIO == [kind |-> "memory", data |-> <<>>, pos |-> 0, closed |-> FALSE]

TemporaryFile == [kind |-> "disk", data |-> <<>>, pos |-> 0, closed |-> FALSE]

f_seek(f, offset) == [f EXCEPT !.pos = offset]

\* f.read(): the bytes from the position to the end.
f_read(f) == SubSeq(f.data, f.pos + 1, Len(f.data))

\* f.write(data): at the position, over what is there.
f_write(f, data) ==
    [f EXCEPT !.data = SubSeq(f.data, 1, f.pos) \o data
                          \o SubSeq(f.data, f.pos + Len(data) + 1, Len(f.data)),
              !.pos = f.pos + Len(data)]

f_close(f) == [f EXCEPT !.closed = TRUE]

\* shutil.copyfileobj(fsrc, fdst): fdst after the copy.
copyfileobj(fsrc, fdst) == f_write(fdst, f_read(fsrc))

\* SpooledWriter.__init__.  made counts the TemporaryFile() calls, puts the
\* put_file calls, written is all the data the write calls were given, and
\* closing tells how close() ended.
SpooledWriter(name, max_buffer) ==
    [name |-> name, max_buffer |-> max_buffer, bytes |-> 0, temp |-> StringIO,
     made |-> 0, puts |-> 0, written |-> <<>>, closing |-> "no"]

\* write as it would be without self.temp.seek(0) ahead of the copy.
write_without_rewind(w, data) ==
    LET spill == w.temp.pos + Len(data) >= w.max_buffer
        temp == IF spill THEN copyfileobj(w.temp, TemporaryFile) ELSE w.temp
    IN  [w EXCEPT !.temp = f_write(temp, data),
                  !.bytes = w.bytes + Len(data),
                  !.made = IF spill THEN w.made + 1 ELSE w.made,
                  !.written = w.written \o data]

\* SpooledWriter.write
write(w, data) ==
    LET spill == w.temp.pos + Len(data) >= w.max_buffer
        temp == IF spill THEN copyfileobj(f_seek(w.temp, 0), TemporaryFile) ELSE w.temp
    IN  [w EXCEPT !.temp = f_write(temp, data),
                  !.bytes = w.bytes + Len(data),
                  !.made = IF spill THEN w.made + 1 ELSE w.made,
                  !.written = w.written \o data]

\* SpooledWriter.close: the writer after put_file returned (err = "none")
\* or raised.  put_file reads the rewound writer to its end.
close(w, err) ==
    LET rewound == f_seek(w.temp, 0)
        sent == f_seek(rewound, Len(rewound.data))
    IN  IF err = "none"
        THEN [w EXCEPT !.temp = f_close(sent), !.puts = w.puts + 1,
                       !.closing = "returned"]
        ELSE [w EXCEPT !.temp = rewound, !.puts = w.puts + 1, !.closing = "raised"]

\* What put_file reads from the writer that close() hands it.
Body(w) == f_read(f_seek(w.temp, 0))

\* client.DropboxClient.get_file(path): the answer carries the body.
super_get_file(r, content, path, limited) ==
    IF limited THEN ErrorResponse(r, 503, "")
    ELSE IF ~Live(r, path) \/ IsDir(r, path) THEN ErrorResponse(r, 404, "")
    ELSE Response(200, "", Record(r, path), content[path], r)

\* SpooledReader.__init__ after get_file has answered.  above is the value
\* of `r > max_buffer`, which compares the answer itself with a number.
\* gets counts the get_file calls; original is what the writer that
\* uploaded the file was given.
SpooledReader(name, body, above, original) ==
    [name |-> name, bytes |-> Len(body),
     temp |-> f_seek(copyfileobj([data |-> body, pos |-> 0],
                                 IF above THEN TemporaryFile ELSE StringIO), 0),
     gets |-> 1, original |-> original]

\* The next n bytes of the local source.
Chunk(w, n) == [i \in 1..n |-> Len(w.written) + i]

\* DropboxFS.open(path, "wb")
w_open(path) ==
    /\ spool' = [spool EXCEPT !.writer = Some(SpooledWriter(path, MaxBuffer))]
    /\ UNCHANGED <<cache, now, remote, version, served, lastCall, lastListing,
                   running, lock>>

\* A write call on the writer.
w_write(n) ==
    /\ spool.writer # None
    /\ spool.writer[1].closing = "no"
    /\ Len(spool.writer[1].written) + n <= MaxBytes
    /\ spool' = [spool EXCEPT
                    !.writer = Some(write(spool.writer[1], Chunk(spool.writer[1], n)))]
    /\ UNCHANGED <<cache, now, remote, version, served, lastCall, lastListing,
                   running, lock>>

\* close() on the writer: the one put_file call, which stores the body
\* when it goes through.
w_close ==
    /\ spool.writer # None
    /\ spool.writer[1].closing = "no"
    /\ LET w == spool.writer[1]
       IN  \E o \in {put_file(cache, remote, version, w.name, Limited, now)} :
              /\ cache' = o.cache
              /\ remote' = o.store
              /\ version' = o.version
              /\ served' = IF Served(o) THEN served + 1 ELSE served
              /\ spool' = [spool EXCEPT
                              !.writer = Some(close(w, o.err)),
                              !.content = IF o.err = "none"
                                          THEN [@ EXCEPT ![w.name] =
                                                   [body |-> Body(w),
                                                    original |-> w.written]]
                                          ELSE @]
    /\ UNCHANGED <<now, lastCall, lastListing, running, lock>>

\* DropboxFS.open(path, "rb"): no reader when get_file raises.
r_open(path) ==
    /\ \E resp \in {super_get_file(remote, spool.content, path, Limited)} :
          /\ resp.status = 200
          /\ \E above \in BOOLEAN :
                spool' = [spool EXCEPT
                            !.reader = Some(SpooledReader(path, resp.contents.body, above,
                                                          resp.contents.original))]
    /\ served' = served + 1
    /\ UNCHANGED <<cache, now, remote, version, lastCall, lastListing, running, lock>>

\* read() on the reader, served by self.temp.
r_read ==
    /\ spool.reader # None
    /\ spool.reader[1].temp.pos < Len(spool.reader[1].temp.data)
    /\ spool' = [spool EXCEPT !.reader[1].temp.pos = Len(spool.reader[1].temp.data)]
    /\ UNCHANGED <<cache, now, remote, version, served, lastCall, lastListing,
                   running, lock>>

\* seek(0) on the reader, served by self.temp.
r_seek ==
    /\ spool.reader # None
    /\ spool.reader[1].temp.pos > 0
    /\ spool' = [spool EXCEPT !.reader[1].temp.pos = 0]
    /\ UNCHANGED <<cache, now, remote, version, served, lastCall, lastListing,
                   running, lock>>

NextSpool ==
    \/ \E path \in Paths \ {Root} : w_open(path)
    \/ \E n \in 1..MaxChunk : w_write(n)
    \/ w_close
    \/ \E path \in Paths \ {Root} : r_open(path)
    \/ r_read
    \/ r_seek

SpecSpool == Init /\ [][NextSpool]_vars

---------------------------------------------------------------------------
(* Properties *)

\* The entry of path holds a children sequence.
HasListing(c, path) == path \in DOMAIN c /\ c[path].children # None

\* How often name occurs in list.
Count(list, name) == Cardinality({i \in 1..Len(list) : list[i] = name})

\* This step is a client call: lastCall' is its outcome.
CallStep == Idle /\ lastCall' # NoCall

Mutating == {"file_create_folder", "file_copy", "file_move", "file_delete", "put_file"}

DomainErrors ==
    {"ResourceNotFoundError", "ResourceInvalidError", "ParentDirectoryMissingError",
     "DestinationExistsError", "DirectoryNotEmptyError", "RemoteConnectionError"}

\* C1: in every reachable state, every name in the children sequence of the
\* entry of a path P has an entry of its own at P/name.
C1_ChildrenHaveEntries ==
    \A P \in DOMAIN cache :
        cache[P].children # None =>
            \A i \in 1..Len(cache[P].children[1]) :
                Append(P, cache[P].children[1][i]) \in DOMAIN cache

\* C2: after a call that did set(D/c) the children sequence of D, if
\* present, holds c exactly once; after a call that did pop(D/c) it does not
\* hold c; and no children sequence ever holds a name twice.
C2_SetOncePopNone ==
    [][CallStep /\ lastCall'.err = "none" =>
        /\ lastCall'.op \in {"file_create_folder", "file_copy", "file_move"} =>
              (HasListing(cache', dirname(lastCall'.dst)) =>
                  Count(cache'[dirname(lastCall'.dst)].children[1],
                        basename(lastCall'.dst)) = 1)
        /\ lastCall'.op \in {"file_delete", "file_move"} =>
              (HasListing(cache', dirname(lastCall'.path)) =>
                  Count(cache'[dirname(lastCall'.path)].children[1],
                        basename(lastCall'.path)) = 0)
        /\ \A D \in DOMAIN cache' :
              cache'[D].children # None =>
                  \A name \in {"a", "b", "x"} :
                      Count(cache'[D].children[1], name) <= 1]_vars

\* C3: the entry of a path gets a children sequence only in a children()
\* call on that path whose listing fetch succeeded.
C3_ListingOnlyFromFetch ==
    [][\A P \in Paths :
          (HasListing(cache', P) /\ ~HasListing(cache, P)) =>
              (lastCall'.op = "children" /\ lastCall'.path = P
                  /\ lastCall'.status = 200)]_vars

\* C4: a children(D) call on a directory D whose listing was fetched by the
\* last listing fetch, less than CACHE_TTL ago and with no local mutation
\* since, makes no remote call and returns the names that fetch returned.
C4_RepeatedListingIsCached ==
    [][(CallStep /\ lastCall'.op = "children" /\ lastListing # None
            /\ lastListing[1].path = lastCall'.path
            /\ now - lastListing[1].at < CACHE_TTL
            /\ IsDir(remote, lastCall'.path)) =>
          (lastCall'.remote = 0 /\ lastCall'.err = "none"
              /\ lastCall'.names = Some(lastListing[1].names))]_vars

\* C5: metadata(P) on an unexpired entry with metadata makes no remote call
\* and returns the cached record as a dict of its own: what the caller does
\* to it leaves the cache as it was.
C5_FreshMetadataFromCache ==
    [][\A P \in Paths :
          (CallStep /\ lastCall'.op = "metadata" /\ lastCall'.path = P
              /\ P \in DOMAIN cache /\ cache[P].metadata # None
              /\ ~_get_expired(cache[P], now)) =>
          (/\ lastCall'.remote = 0
           /\ lastCall'.err = "none"
           /\ lastCall'.ret # None
           /\ lastCall'.ret[1].val = cache[P].metadata[1]
           /\ cache' = cache)]_vars

\* C5 witness: a metadata() call was answered from the cache.
C5_Witness ==
    /\ lastCall.op = "metadata" /\ lastCall.remote = 0 /\ lastCall.err = "none"
    /\ lastCall.path \in DOMAIN cache
    /\ lastCall.ret # None
    /\ lastCall.ret[1].val = cache[lastCall.path].metadata[1]

\* C6: whatever a client call raises is one of the filesystem errors.
C6_OnlyDomainErrors ==
    lastCall.err # "none" => lastCall.err \in DomainErrors

\* C7: a mutating call that raises leaves the cache as it was, and
\* file_delete on a directory that has members remotely raises
\* DirectoryNotEmptyError.
C7_FailedMutationKeepsCache ==
    [][(CallStep /\ lastCall'.op \in Mutating) =>
          /\ lastCall'.err # "none" => cache' = cache
          /\ (lastCall'.op = "file_delete" /\ ~Limited
                 /\ HasMembers(remote, lastCall'.path)) =>
                (lastCall'.err = "DirectoryNotEmptyError" /\ cache' = cache)]_vars

\* C7 witness: file_delete raised DirectoryNotEmptyError for a directory that
\* is cached and listed in its parent's children sequence.
C7_Witness ==
    /\ lastCall.op = "file_delete" /\ lastCall.err = "DirectoryNotEmptyError"
    /\ lastCall.path \in DOMAIN cache
    /\ HasListing(cache, dirname(lastCall.path))
    /\ Count(cache[dirname(lastCall.path)].children[1], basename(lastCall.path)) = 1

\* Thread t is past the look at the cache and before the end of the write
\* to it of a children() call, or inside a mutating call.
Inside(t) ==
    /\ running[t].op \in {"children"} \cup Mutating
    /\ running[t].at \in {"fetch", "populate"}

\* This step is thread u reading or writing the cache.
Touches(u) ==
    /\ running'[u] # running[u]
    /\ \/ running[u].at = "populate"
       \/ running[u].at = "idle" /\ running'[u].op \in {"children", "metadata"}

\* C8: with two threads on one instance, no thread reads or writes the
\* cache while the other is between the cache check and the cache
\* population of a listdir call, or inside a move, copy, makedir, remove,
\* removedir or setcontents call.
C8_CallsAreNotInterleaved ==
    [][\A t \in Threads : \A u \in Threads \ {t} : Inside(t) => ~Touches(u)]_vars

\* C9: children(D) on an expired entry of a directory, with metadata and a
\* listing, sends the entry's hash; on 304 the entry is renewed and otherwise
\* unchanged, its names are returned, and a children(D) call right after is
\* answered from the cache.
C9_ExpiredListingRevalidated ==
    [][\A D \in Paths :
          (CallStep /\ lastCall'.op = "children" /\ lastCall'.path = D
              /\ D \in DOMAIN cache /\ _get_expired(cache[D], now)
              /\ cache[D].metadata # None /\ cache[D].children # None
              /\ Get(cache[D].metadata[1], "is_dir", FALSE)) =>
          (/\ lastCall'.remote = 1
           /\ lastCall'.hash = Some(cache[D].metadata[1].hash)
           /\ lastCall'.status = 304 =>
                 /\ cache' = [cache EXCEPT ![D] = renew(cache[D], now)]
                 /\ lastCall'.names = cache[D].children
                 /\ children(cache', remote', version', D, FALSE, now').remote = 0
                 /\ children(cache', remote', version', D, FALSE, now').names
                       = cache[D].children)]_vars

\* C10: after a file_move(src, dst) that went through there is no entry at
\* src, and the entry at dst holds the record the remote move returned, with
\* the time of the call as its timestamp.
C10_MoveReplacesEntries ==
    [][(CallStep /\ lastCall'.op = "file_move" /\ lastCall'.err = "none") =>
          /\ lastCall'.path \notin DOMAIN cache'
          /\ lastCall'.dst \in DOMAIN cache'
          /\ cache'[lastCall'.dst].metadata = Some(Record(remote', lastCall'.dst))
          /\ cache'[lastCall'.dst].timestamp = now
          /\ ~_get_expired(cache'[lastCall'.dst], now)]_vars

\* C10 witness: a file_move went through whose destination has an entry.
C10_Witness ==
    /\ lastCall.op = "file_move" /\ lastCall.err = "none"
    /\ lastCall.path # lastCall.dst
    /\ lastCall.path \notin DOMAIN cache
    /\ lastCall.dst \in DOMAIN cache

\* C11: metadata(P) that is to fetch, on a path the remote store does not
\* hold (404) or holds as deleted (a record with the deleted flag), raises
\* ResourceNotFoundError and leaves the cache as it was.
C11_MissingIsNotFound ==
    [][\A P \in Paths :
          (CallStep /\ lastCall'.op = "metadata" /\ lastCall'.path = P
              /\ metadata_check(cache, P, now) /\ ~Limited /\ ~Live(remote, P)) =>
          (/\ lastCall'.remote = 1
           /\ lastCall'.status = IF remote[P].state = "absent" THEN 404 ELSE 200
           /\ lastCall'.err = "ResourceNotFoundError"
           /\ cache' = cache)]_vars

\* C11 witness: metadata() raised ResourceNotFoundError on a record with the
\* deleted flag, with the expired entry of the path still in the cache.
C11_Witness ==
    /\ lastCall.op = "metadata" /\ lastCall.err = "ResourceNotFoundError"
    /\ lastCall.status = 200
    /\ remote[lastCall.path].state = "deleted"
    /\ lastCall.path \in DOMAIN cache
    /\ _get_expired(cache[lastCall.path], now)

\* C12: a 404 answer to the fetch of metadata() or of children() is raised
\* as ResourceNotFoundError.
C12_NotFoundFromAnyFetch ==
    (lastCall.op \in {"metadata", "children"} /\ lastCall.status = 404) =>
        lastCall.err = "ResourceNotFoundError"

\* C17: a put_file(P) that went through leaves no entry for the parent of P
\* and leaves the entry of every other path as it was.
C17_UploadDropsParentOnly ==
    [][(CallStep /\ lastCall'.op = "put_file" /\ lastCall'.err = "none") =>
          /\ dirname(lastCall'.path) \notin DOMAIN cache'
          /\ \A q \in Paths \ {dirname(lastCall'.path)} :
                /\ q \in DOMAIN cache' <=> q \in DOMAIN cache
                /\ q \in DOMAIN cache => cache'[q] = cache[q]]_vars

\* C18: after a file_delete(P) or file_move(P, Q) of a directory P that
\* went through, the cache holds no entry for P or for a path below P.
C18_NoEntryBelowRemoved ==
    [][(CallStep /\ lastCall'.op \in {"file_delete", "file_move"}
            /\ lastCall'.err = "none" /\ IsDir(remote, lastCall'.path)) =>
          \A q \in DOMAIN cache' : ~IsUnder(q, lastCall'.path)]_vars

\* C19: after a put_file(P) that went through, on a path whose entry is
\* unexpired and has metadata, metadata(P) does not return the record that
\* was cached before the call.
C19_UploadRefreshesMetadata ==
    [][\A P \in Paths :
          (CallStep /\ lastCall'.op = "put_file" /\ lastCall'.path = P
              /\ lastCall'.err = "none"
              /\ P \in DOMAIN cache /\ ~metadata_check(cache, P, now)) =>
          LET next == metadata(cache', remote', version', P, FALSE, now')
          IN  next.ret = None \/ next.ret[1].val # cache[P].metadata[1]]_vars

\* C20: children(P) on a path whose entry has metadata that says it is not
\* a directory raises ResourceInvalidError, expired or not.
C20_FileHasNoListing ==
    [][\A P \in Paths :
          (CallStep /\ lastCall'.op = "children" /\ lastCall'.path = P
              /\ P \in DOMAIN cache /\ cache[P].metadata # None
              /\ ~Get(cache[P].metadata[1], "is_dir", FALSE)) =>
          (lastCall'.err = "ResourceInvalidError" /\ lastCall'.names = None)]_vars

\* C13: a writer's store is in memory until the one switch to disk and on
\* disk from then on; no write allocates a second disk store; the store
\* holds all the bytes written, in order.
C13_SpillsOnce ==
    spool.writer # None =>
        /\ spool.writer[1].made <= 1
        /\ spool.writer[1].temp.kind = (IF spool.writer[1].made = 0 THEN "memory" ELSE "disk")
        /\ spool.writer[1].temp.data = spool.writer[1].written

\* C14: once close() on a writer is over, returned or raised, it has made
\* one put_file call, on the rewound store, and the store is closed.
C14_CloseReleasesStore ==
    (spool.writer # None /\ spool.writer[1].closing # "no") =>
        /\ spool.writer[1].puts = 1
        /\ spool.writer[1].temp.closed

\* C15: a reader has made one get_file call, and its store is in memory
\* when the content length is below max_buffer and on disk when not.
C15_ReaderStoreByLength ==
    spool.reader # None =>
        /\ spool.reader[1].gets = 1
        /\ spool.reader[1].temp.kind =
              (IF spool.reader[1].bytes < MaxBuffer THEN "memory" ELSE "disk")

\* C16: what a reader holds is what the writer that uploaded the file was
\* given, byte for byte, however the writes were split and whether or not
\* the writer went to disk.
C16_RoundTrip ==
    spool.reader # None =>
        /\ spool.reader[1].temp.data = spool.reader[1].original
        /\ spool.reader[1].bytes = Len(spool.reader[1].original)

\* C16 witness: a reader holds the bytes of a writer that went to disk
\* after a first write that stayed in memory.
C16_Witness ==
    /\ spool.reader # None
    /\ Len(spool.reader[1].original) > MaxBuffer
    /\ spool.reader[1].temp.data = spool.reader[1].original
    /\ spool.reader[1].temp.pos = Len(spool.reader[1].temp.data)


\* C21: an entry is expired exactly when now - timestamp > CACHE_TTL:
\* metadata(P) on an entry with metadata goes to the remote store when the
\* entry is older than CACHE_TTL, and is answered from the cache when its
\* age is CACHE_TTL or less.
C21_ExpiredAfterTTL ==
    [][\A P \in Paths :
          (CallStep /\ lastCall'.op = "metadata" /\ lastCall'.path = P
              /\ P \in DOMAIN cache /\ cache[P].metadata # None) =>
          lastCall'.remote = (IF now - cache[P].timestamp > CACHE_TTL THEN 1 ELSE 0)]_vars

=============================================================================
